---- MODULE Spec2Model ----
(***************************************************************************)
(* A model of the readline core: the completion engine's candidate         *)
(* lifecycle (src/internal/display/engine.go, package completion), the     *)
(* display engine's repaint protocol (same file, package display), the     *)
(* tokenizers (src/tokenise.go) and the undo history (src/undo.go).        *)
(*                                                                         *)
(* Strings are sequences of runes, a rune a string of the model; len() of  *)
(* a Go string counts bytes (StringLen), len() of a []rune counts runes    *)
(* (Len).  A Go panic (index or slice out of range) is recorded in the     *)
(* field "panicked" of the engine record: the process stops there.         *)
(***************************************************************************)
EXTENDS Integers, Sequences, FiniteSets, TLC

VARIABLES
    e,      \* completion.Engine: the fields the modelled operations use
    key,    \* keys.Caller()[0]: the key that invoked the running command
    phase,  \* position in the candidate lifecycle (what ran last)
    pre,    \* the engine as it was before the last operation (history)
    run,    \* history: the accepted separator typed again after an accept
    ops,    \* completion requests and typed keys so far
    op,     \* the operation that ran last (history)
    d,      \* display.Engine: the geometry snapshot
    t,      \* the terminal: its cursor, rows counted from the input line's first
    shown,  \* what the display engine was last given to show
    dhist,  \* history of the display operation that ran last
    paints, \* display operations so far
    tok,    \* a tokenizer call: its arguments and, once it ran, its results
    upd,    \* UpdateInserted: the keymap, the pending keys, what it passed on
    rl      \* Instance: the line, the cursor and the undo history (undo.go)

cvars == <<e, key, phase, pre, run, ops, op>>

dvars == <<d, t, shown, dhist, paints>>

tvars == <<tok>>

vars == <<e, key, phase, pre, run, ops, op, d, t, shown, dhist, paints, tok,
          upd, rl>>

---------------------------------------------------------------------------
(* Bounds of the model.                                                    *)

MaxOps == 3

\* term.GetWidth(): the terminal's width
Width == 4

\* the longest line the display engine is given
MaxShown == 6

\* display operations (Refresh, ClearHelpers) in one behaviour
MaxPaints == 2

\* the longest line given to a tokenizer
MaxTokLen == 3

\* the longest line given to the bracket tokenizer
MaxBracketLen == 5

\* the longest line edited under undo, and the most snapshots kept
MaxLineLen == 2

MaxUndo == 3

---------------------------------------------------------------------------
(* Runes.                                                                  *)

Space == " "

Tab == "\t"

Slash == "/"

Wildcard == "*"

Keys == {"a", Slash, Space, Tab, "="}

CompleteKeys == {Tab, Space}

Min(a, b) == IF a < b THEN a ELSE b

Max(a, b) == IF a > b THEN a ELSE b

\* unicode.IsSpace, over the runes of the model
IsSpace(k) == k \in {Space, Tab, "\n"}

\* a rune that UTF-8 encodes in two bytes (it stands for U+00E9)
EAcute == "e'"

\* U+FFFD, the rune an invalid byte decodes to (three bytes in UTF-8)
RuneError == "U+FFFD"

\* the UTF-8 length of a rune
ByteLen(r) == IF r = EAcute THEN 2 ELSE IF r = RuneError THEN 3 ELSE 1

RECURSIVE StringLen(_)
\* len(s) of a Go string s: its bytes
StringLen(s) == IF s = <<>> THEN 0 ELSE ByteLen(Head(s)) + StringLen(Tail(s))

RECURSIVE RunesFrom(_, _)
\* []rune(s[n:]) for n <= len(s): the bytes left of a rune cut in two are
\* invalid and decode to U+FFFD each
RunesFrom(s, n) ==
    IF n = 0 THEN s
    ELSE IF ByteLen(Head(s)) <= n
    THEN RunesFrom(Tail(s), n - ByteLen(Head(s)))
    ELSE [i \in 1..(ByteLen(Head(s)) - n) |-> RuneError] \o Tail(s)

---------------------------------------------------------------------------
(* core.Line and core.Cursor (section 4.1 of the spec).                    *)

\* insert-at(pos, runes): an invalid position leaves the line as it is
LineInsert(l, pos, rs) ==
    IF pos < 0 \/ pos > Len(l) THEN l
    ELSE SubSeq(l, 1, pos) \o rs \o SubSeq(l, pos + 1, Len(l))

\* cut-range(start, end): the end is clamped to the length
LineCut(l, bpos, epos) ==
    IF bpos < 0 \/ bpos > Len(l) \/ epos < bpos THEN l
    ELSE SubSeq(l, 1, bpos) \o SubSeq(l, Min(epos, Len(l)) + 1, Len(l))

\* CutRune(pos): deletes the rune at index pos (0-based)
LineCutRune(l, pos) ==
    IF pos < 0 \/ pos >= Len(l) THEN l
    ELSE SubSeq(l, 1, pos) \o SubSeq(l, pos + 2, Len(l))

\* Cursor.Dec
CursorDec(pos) == IF pos > 0 THEN pos - 1 ELSE pos

\* Cursor.Set on a line l: the invariant 0 <= cursor <= length is kept
CursorSet(l, pos) == Max(0, Min(pos, Len(l)))

---------------------------------------------------------------------------
(* Suffix matchers and groups.                                             *)

\* SuffixMatcher{}: the zero value
EmptyMatcher == [string |-> <<>>, pos |-> 0]

\* notMatcher(key, matchers)
notMatcher(k, matchers) == \A i \in 1..Len(matchers) : matchers[i] # k

\* SuffixMatcher.Matches: the wildcard matches every key
Matches(sm, k) ==
    \E i \in 1..Len(sm.string) : sm.string[i] = Wildcard \/ sm.string[i] = k

\* currentGroup(): the first group holding candidates; 0 stands for nil
currentGroup(en) ==
    IF \E i \in 1..Len(en.groups) : Len(en.groups[i].values) > 0
    THEN CHOOSE i \in 1..Len(en.groups) :
            /\ Len(en.groups[i].values) > 0
            /\ \A j \in 1..(i - 1) : Len(en.groups[j].values) = 0
    ELSE 0

\* group.selected()
GroupSelected(g) == g.values[g.sel]

\* noCompletions(): no group holds a candidate
noCompletions(en) == \A i \in 1..Len(en.groups) : Len(en.groups[i].values) = 0

RECURSIVE CountCandidates(_, _)
CountCandidates(groups, i) ==
    IF i > Len(groups) THEN 0
    ELSE Len(groups[i].values) + CountCandidates(groups, i + 1)

\* hasUniqueCandidate(): exactly one candidate across all groups
hasUniqueCandidate(en) == CountCandidates(en.groups, 1) = 1

---------------------------------------------------------------------------
(* The completion engine's operations.                                     *)

\* prepareSuffix: the state it leaves and the string it returns
prepareSuffix(en, k) ==
    LET cur == currentGroup(en) IN
    IF cur = 0 THEN [e |-> en, comp |-> <<>>]
    ELSE
    LET comp == en.selected
        prefix == StringLen(en.prefix)
        noSpace == en.groups[cur].noSpace
    IN
    \* comp[prefix:] is evaluated only when len(comp) > 0
    IF StringLen(comp) > 0 /\ prefix > StringLen(comp)
    THEN [e |-> [en EXCEPT !.panicked = TRUE], comp |-> comp]
    ELSE IF StringLen(comp) > 0 /\ StringLen(comp) - prefix <= 1
    THEN [e |-> en, comp |-> comp]
    \* comp[len(comp)-1]
    ELSE IF StringLen(comp) = 0
    THEN [e |-> [en EXCEPT !.panicked = TRUE], comp |-> comp]
    ELSE
    LET suffix == comp[Len(comp)]
        e1 == [en EXCEPT
                 !.sm = [string |-> noSpace,
                         pos |-> en.cursor + StringLen(comp) - prefix - 1]]
    IN
    IF noSpace = <<Wildcard>> /\ suffix # Space /\ k = Space
    THEN [e |-> e1, comp |-> comp]
    ELSE IF suffix = Slash /\ k # Space /\ notMatcher(k, noSpace)
    THEN [e |-> e1, comp |-> comp]
    ELSE [e |-> e1, comp |-> comp]

\* acceptCandidate with the suffix added back where the cursor was before
\* the insertion (a faulty variant)
acceptCandidateSuffixFirst(en, k) ==
    LET cur == currentGroup(en) IN
    IF cur = 0 THEN en
    ELSE
    LET e1 == [en EXCEPT !.selected = GroupSelected(en.groups[cur])]
        p == prepareSuffix(e1, k)
        e2 == p.e
    IN
    IF e2.panicked THEN e2
    ELSE IF StringLen(e2.prefix) > StringLen(p.comp)
    THEN [e2 EXCEPT !.panicked = TRUE]
    ELSE
    LET inserted == RunesFrom(p.comp, StringLen(e2.prefix))
        l1 == LineCut(e2.line, e2.cursor, e2.cursor + StringLen(e2.suffix))
        l2 == LineInsert(l1, e2.cursor, inserted)
        c2 == e2.cursor + Len(inserted)
        l3 == LineInsert(l2, e2.cursor, e2.suffix)
    IN
    [e2 EXCEPT !.line = l3, !.cursor = c2,
               !.inserted = <<>>, !.prefix = <<>>, !.suffix = <<>>]

\* acceptCandidate
acceptCandidate(en, k) ==
    LET cur == currentGroup(en) IN
    IF cur = 0 THEN en
    ELSE
    LET e1 == [en EXCEPT !.selected = GroupSelected(en.groups[cur])]
        p == prepareSuffix(e1, k)
        e2 == p.e
    IN
    IF e2.panicked THEN e2
    \* completion[len(e.prefix):]
    ELSE IF StringLen(e2.prefix) > StringLen(p.comp)
    THEN [e2 EXCEPT !.panicked = TRUE]
    ELSE
    LET inserted == RunesFrom(p.comp, StringLen(e2.prefix))
        l1 == LineCut(e2.line, e2.cursor, e2.cursor + StringLen(e2.suffix))
        l2 == LineInsert(l1, e2.cursor, inserted)
        c2 == e2.cursor + Len(inserted)
        l3 == LineInsert(l2, c2, e2.suffix)
    IN
    [e2 EXCEPT !.line = l3, !.cursor = c2,
               !.inserted = <<>>, !.prefix = <<>>, !.suffix = <<>>]

\* insertCandidate
insertCandidate(en, k) ==
    LET grp == currentGroup(en) IN
    IF grp = 0 THEN en
    ELSE
    LET e1 == [en EXCEPT !.selected = GroupSelected(en.groups[grp])] IN
    IF StringLen(e1.selected) < StringLen(e1.prefix) THEN e1
    ELSE
    LET p == prepareSuffix(e1, k)
        e2 == p.e
    IN
    IF e2.panicked THEN e2
    ELSE IF StringLen(e2.prefix) > StringLen(p.comp)
    THEN [e2 EXCEPT !.panicked = TRUE]
    ELSE
    LET inserted == RunesFrom(p.comp, StringLen(e2.prefix))
        completed == e2.line
        cc0 == CursorSet(completed, e2.cursor)
        l1 == LineCut(completed, cc0, cc0 + StringLen(e2.suffix))
        l2 == LineInsert(l1, cc0, inserted)
        cc == cc0 + Len(inserted)
        l3 == LineInsert(l2, cc, e2.suffix)
    IN
    [e2 EXCEPT !.inserted = inserted, !.hasComp = TRUE,
               !.compLine = l3, !.compCursor = cc]

\* cancelCompletedLine leaving the shadow cursor where the preview put it
\* (a faulty variant)
cancelCompletedLineKeepCursor(en) ==
    [en EXCEPT !.compLine = en.line, !.selected = <<>>]

\* cancelCompletedLine
cancelCompletedLine(en) ==
    [en EXCEPT !.compLine = en.line,
               !.compCursor = CursorSet(en.line, en.cursor),
               !.selected = <<>>]

\* Cancel: restores the shadow buffer, if present, and drops the selection
Cancel(en, inserted, cached) ==
    IF en.hasComp THEN cancelCompletedLine(en)
    ELSE [en EXCEPT !.selected = <<>>]

\* ClearMenu: ends the completion session's selection, prefix and, with
\* completions, the generated groups
ClearMenu(en, completions) ==
    [en EXCEPT !.selected = <<>>, !.prefix = <<>>,
               !.groups = IF completions THEN <<>> ELSE @]

\* ResetForce
ResetForce(en) == [en EXCEPT !.autoForce = FALSE]

\* refreshLine without the check for an empty generation result (a faulty
\* variant)
refreshLineNoEmptyCheck(en, k) ==
    IF currentGroup(en) = 0
    THEN [e |-> en, branch |-> "none"]
    ELSE IF hasUniqueCandidate(en)
    THEN LET e1 == acceptCandidate(en, k) IN
         IF e1.panicked THEN [e |-> e1, branch |-> "panic"]
         ELSE [e |-> ResetForce(ClearMenu(e1, TRUE)), branch |-> "accept"]
    ELSE LET e1 == insertCandidate(en, k) IN
         IF e1.panicked THEN [e |-> e1, branch |-> "panic"]
         ELSE [e |-> e1, branch |-> "insert"]

\* refreshLine: the state it leaves and the branch it took
refreshLine(en, k) ==
    IF noCompletions(en)
    THEN [e |-> Cancel(en, TRUE, TRUE), branch |-> "cancel"]
    ELSE IF currentGroup(en) = 0
    THEN [e |-> en, branch |-> "none"]
    ELSE IF hasUniqueCandidate(en)
    THEN LET e1 == acceptCandidate(en, k) IN
         IF e1.panicked THEN [e |-> e1, branch |-> "panic"]
         ELSE [e |-> ResetForce(ClearMenu(e1, TRUE)), branch |-> "accept"]
    ELSE LET e1 == insertCandidate(en, k) IN
         IF e1.panicked THEN [e |-> e1, branch |-> "panic"]
         ELSE [e |-> e1, branch |-> "insert"]

\* TrimSuffix without the orphan check (a faulty variant)
TrimSuffixNoOrphanCheck(en, k) ==
    IF Len(en.line) = 0 \/ en.cursor = 0 \/ Len(en.selected) > 0 THEN en
    ELSE
    LET suf == en.line[en.cursor] IN
    IF suf = Slash /\ k # Space /\ notMatcher(k, en.sm.string) THEN en
    ELSE IF Matches(en.sm, k) \/ IsSpace(k)
    THEN LET c == CursorDec(en.cursor) IN
         [en EXCEPT !.cursor = c, !.line = LineCutRune(en.line, c)]
    ELSE en

\* TrimSuffix
TrimSuffix(en, k) ==
    IF Len(en.line) = 0 \/ en.cursor = 0 \/ Len(en.selected) > 0 THEN en
    ELSE IF en.sm.pos # en.cursor - 1 THEN [en EXCEPT !.sm = EmptyMatcher]
    ELSE
    LET suf == en.line[en.cursor] IN
    IF suf = Slash /\ k # Space /\ notMatcher(k, en.sm.string) THEN en
    ELSE IF Matches(en.sm, k) \/ IsSpace(k)
    THEN LET c == CursorDec(en.cursor) IN
         [en EXCEPT !.cursor = c, !.line = LineCutRune(en.line, c)]
    ELSE en

\* Cursor.InsertAt of the typed key (self-insert)
InsertAt(en, rs) ==
    [en EXCEPT !.line = LineInsert(en.line, en.cursor, rs),
               !.cursor = en.cursor + Len(rs)]

\* a selection move inside the current group, rolling over at the end
MoveSelection(en) ==
    LET cur == currentGroup(en) IN
    IF cur = 0 THEN en
    ELSE [en EXCEPT !.groups[cur].sel =
                        (en.groups[cur].sel % Len(en.groups[cur].values)) + 1]

---------------------------------------------------------------------------
(* UpdateInserted, between the local and the main keymap.                  *)

\* keymap.Isearch, and the local keymaps of the model
Isearch == "isearch"

LocalKeymaps == {"", Isearch, "menu-select"}

\* inputrc.Esc and inputrc.Return
Esc == "Esc"

Return == "Return"

\* core.PeekKey: the first pending key, empty when none is pending
PeekKey(keys) ==
    IF keys = <<>> THEN [key |-> "", empty |-> TRUE]
    ELSE [key |-> Head(keys), empty |-> FALSE]

\* mustRemoveInserted answering for every key but Return (a faulty variant)
mustRemoveInsertedOnEsc(local, keys) ==
    IF local # Isearch THEN FALSE
    ELSE LET k == PeekKey(keys) IN
         IF k.empty THEN FALSE
         ELSE k.key # Return

\* mustRemoveInserted
mustRemoveInserted(local, keys) ==
    IF local # Isearch THEN FALSE
    ELSE LET k == PeekKey(keys) IN
         IF k.empty THEN FALSE
         ELSE IF k.key \in {Esc, Return} THEN FALSE
         ELSE TRUE

\* Engine.Reset: the menu and the forced completion are dropped
Reset(en) == ResetForce(ClearMenu(en, TRUE))

\* UpdateInserted: the engine it leaves and the arguments it gave Cancel
UpdateInserted(en, u) ==
    LET choices == Len(en.selected) # 0
        inserted == mustRemoveInserted(u.local, u.keys)
        cached == u.local # Isearch
        e1 == Cancel(en, inserted, cached)
        e2 == IF choices /\ e1.autoForce /\ Len(e1.selected) = 0
              THEN Reset(e1) ELSE e1
        e3 == IF ~ u.auto THEN ClearMenu(e2, choices) ELSE e2
    IN [e |-> e3, inserted |-> inserted, cached |-> cached]

---------------------------------------------------------------------------
(* The inputs of the model.                                                *)

InitLines == { <<>>, <<"a">>, <<"a", "a">>, <<"a", Space>> }

Group(vs, ns) == [values |-> vs, noSpace |-> ns, sel |-> 1]

\* what a generation callback may return
GenResults ==
    { <<>>,
      <<Group(<< <<"a">> >>, <<Slash>>)>>,
      <<Group(<< <<"a", Slash>> >>, <<Slash>>)>>,
      <<Group(<< <<"a", "a", Slash>> >>, <<Slash>>)>>,
      <<Group(<< <<"a", "a", Slash>> >>, <<Wildcard>>)>>,
      <<Group(<< <<"a", "a", Slash>> >>, <<>>)>>,
      <<Group(<< <<"a", "a", "=">> >>, <<"=", Slash>>)>>,
      <<Group(<< <<"a", "a", "a">> >>, <<Wildcard>>)>>,
      <<Group(<< <<EAcute>> >>, <<Slash>>)>>,
      <<Group(<< <<EAcute, Slash>> >>, <<Slash>>)>>,
      <<Group(<<>>, <<>>), Group(<< <<"a", "a", Slash>> >>, <<Slash>>)>>,
      <<Group(<< <<"a", "a", Slash>>, <<"a">> >>, <<Slash>>)>>,
      <<Group(<< <<"a", "a", "a">>, <<"a", "a", "=">> >>, <<"=">>)>>,
      <<Group(<< <<"a", "a", "a">>, <<>> >>, <<Slash>>)>>,
      <<Group(<< <<"a", "a", Slash>> >>, <<Slash>>),
        Group(<< <<"a", "a", "=">> >>, <<"=">>)>> }

\* the tokenizer's prefix: the non-blank runes left of the cursor
WordLeft(l, c) ==
    LET j == CHOOSE j \in 0..c :
                /\ \A i \in (c - j + 1)..c : ~ IsSpace(l[i])
                /\ (j < c => IsSpace(l[c - j]))
    IN SubSeq(l, c - j + 1, c)

\* the tokenizer's suffix: the non-blank runes right of the cursor
WordRight(l, c) ==
    LET n == CHOOSE n \in 0..(Len(l) - c) :
                /\ \A i \in (c + 1)..(c + n) : ~ IsSpace(l[i])
                /\ (c + n < Len(l) => IsSpace(l[c + n + 1]))
    IN SubSeq(l, c + 1, c + n)

EmptyRun == [sep |-> "", n |-> 0, removed |-> <<>>]

\* the engine after construction, on a line l with the cursor at c
NewCompletionEngine(l, c) ==
    [line |-> l, cursor |-> c,
     compLine |-> <<>>, compCursor |-> 0, hasComp |-> FALSE,
     prefix |-> <<>>, suffix |-> <<>>,
     selected |-> <<>>, inserted |-> <<>>,
     sm |-> EmptyMatcher, groups |-> <<>>,
     autoForce |-> FALSE, panicked |-> FALSE]

CInitOn(lines) ==
    /\ \E l \in lines : \E c \in 0..Len(l) : e = NewCompletionEngine(l, c)
    /\ key = Tab
    /\ phase = "idle"
    /\ pre = e
    /\ run = EmptyRun
    /\ ops = 0
    /\ op = "init"

CInit == CInitOn(InitLines)

---------------------------------------------------------------------------
(* The terminal: cursor moves and output (section 6 of the spec).  The     *)
(* cursor's row is counted from the first row of the input line; a print   *)
(* that fills a row to its last column leaves the cursor on that row, the  *)
(* wrap pending, as displayLine's exact-fit adjustment supposes.           *)

\* the prompt's last line: its length, which prompt.LastUsed() returns
PromptLen == 1

\* the screen row (1-based) of the input line's first row
PromptRow == 3

\* what is written to the terminal is recorded in its field out, with the
\* cursor as the output leaves it
Emit(tm, what) ==
    [tm EXCEPT !.out = Append(@, [op |-> what, row |-> tm.row, col |-> tm.col])]

\* the terminal with the record of its output emptied
Fresh(tm) == [tm EXCEPT !.out = <<>>]

MoveCursorUp(tm, n) ==
    IF n < 1 THEN tm
    ELSE Emit([tm EXCEPT !.row = @ - n, !.wrap = FALSE], "up")

MoveCursorDown(tm, n) ==
    IF n < 1 THEN tm
    ELSE Emit([tm EXCEPT !.row = @ + n, !.wrap = FALSE], "down")

MoveCursorForwards(tm, n) ==
    IF n < 1 THEN tm
    ELSE Emit([tm EXCEPT !.col = Min(Width - 1, @ + n), !.wrap = FALSE],
              "forwards")

MoveCursorBackwards(tm, n) ==
    IF n < 1 THEN tm
    ELSE Emit([tm EXCEPT !.col = Max(0, @ - n), !.wrap = FALSE], "backwards")

\* fmt.Println(): the leftmost column of the next row
Println(tm) ==
    Emit([tm EXCEPT !.row = @ + 1, !.col = 0, !.wrap = FALSE], "newline")

\* n runes printed from the cursor on
PrintRunes(tm, n) ==
    IF n = 0 THEN Emit(tm, "line")
    ELSE LET from == IF tm.wrap THEN (tm.row + 1) * Width
                     ELSE tm.row * Width + tm.col
             end == from + n
         IN IF end % Width = 0
            THEN Emit([tm EXCEPT !.row = (end \div Width) - 1,
                                 !.col = Width - 1, !.wrap = TRUE], "line")
            ELSE Emit([tm EXCEPT !.row = end \div Width,
                                 !.col = end % Width, !.wrap = FALSE], "line")

\* term.HideCursor, term.ShowCursor, term.ClearScreenBelow
HideCursor(tm) == Emit(tm, "hide")

ShowCursor(tm) == Emit(tm, "show")

ClearScreenBelow(tm) == Emit(tm, "clear")

\* the position query keys.GetCursorPos writes to the terminal
QueryCursorPos(tm) == Emit(tm, "query")

\* keys.GetCursorPos(): the cursor's column and row, 1-based; -1 when the
\* terminal does not answer
GetCursorPos(tm, ok) ==
    IF ok THEN [x |-> tm.col + 1, y |-> PromptRow + tm.row]
    ELSE [x |-> -1, y |-> -1]

\* Coordinates(indent) of a line or a cursor n runes into the line
Coordinates(indent, n) ==
    LET T == indent + n IN
    IF Width <= 0 THEN [col |-> T, row |-> 0]
    ELSE [col |-> T % Width, row |-> T \div Width]

---------------------------------------------------------------------------
(* The display engine.  in: what the completer and the collaborators give  *)
(* computeCoordinates and the helpers: the line's length (len), the        *)
(* cursor (pos), the length of the history suggestion (sug), whether a     *)
(* candidate is being inserted (inserting), whether the terminal answers   *)
(* the position query (ok), the rows of the hint and of the completions.   *)

\* CursorToLineStart
CursorToLineStart(g, tm) ==
    MoveCursorForwards(
        MoveCursorUp(MoveCursorBackwards(tm, g.cursorCol), g.cursorRow),
        g.startCols - 1)

\* LineStartToCursorPos
LineStartToCursorPos(g, tm) ==
    MoveCursorForwards(
        MoveCursorBackwards(MoveCursorDown(tm, g.cursorRow), Width),
        g.cursorCol)

\* CursorHintToLineStart
CursorHintToLineStart(g, tm) ==
    CursorToLineStart(g,
        MoveCursorUp(MoveCursorUp(tm, 1), g.lineRows - g.cursorRow))

\* the length of e.suggested after computeCoordinates
SuggestedLen(in) == IF in.inserting THEN in.len ELSE in.sug

\* a computeCoordinates that forgets the indent of the line's end
computeCoordinatesNoIndent(g, tm, in) ==
    LET q == GetCursorPos(tm, in.ok)
        startCols == IF q.x = -1 THEN PromptLen ELSE q.x
        c == Coordinates(startCols, in.pos)
        l == IF in.autosuggest
             THEN Coordinates(0, SuggestedLen(in))
             ELSE Coordinates(0, in.len)
    IN [g EXCEPT !.startCols = startCols, !.startRows = q.y,
                 !.cursorCol = c.col, !.cursorRow = c.row,
                 !.lineCol = l.col, !.lineRows = l.row]

\* computeCoordinates
computeCoordinates(g, tm, in) ==
    LET q == GetCursorPos(tm, in.ok)
        startCols == IF q.x = -1 THEN PromptLen ELSE q.x
        c == Coordinates(startCols, in.pos)
        l == IF in.autosuggest
             THEN Coordinates(startCols, SuggestedLen(in))
             ELSE Coordinates(startCols, in.len)
    IN [g EXCEPT !.startCols = startCols, !.startRows = q.y,
                 !.cursorCol = c.col, !.cursorRow = c.row,
                 !.lineCol = l.col, !.lineRows = l.row]

\* whether displayLine prints its adjusting newline
ExactFitNewline(g) == g.lineCol = 0 /\ g.cursorCol = 0 /\ g.cursorRow > 1

\* displayLine
displayLine(g, tm, in) ==
    LET n == IF SuggestedLen(in) > in.len /\ in.autosuggest
             THEN SuggestedLen(in) ELSE in.len
        t1 == PrintRunes(tm, n)
    IN IF ExactFitNewline(g) THEN Println(t1) ELSE t1

\* prompt.RightPrint: no right-side prompt is configured, the call leaves
\* the cursor where it was
RightPrint(tm) == Emit(tm, "rprompt")

\* hint.Display and completer.Display: rows printed below, the cursor left
\* as many rows lower
DisplayRows(tm, rows, what) ==
    Emit([tm EXCEPT !.row = @ + rows, !.wrap = FALSE], what)

\* displayHelpers: the terminal it leaves
displayHelpers(g, tm, in) ==
    LET t1 == Println(tm)
        t2 == DisplayRows(DisplayRows(t1, in.hintRows, "hint"),
                          in.compRows, "completions")
    IN MoveCursorUp(
           MoveCursorUp(MoveCursorBackwards(t2, Width), in.compRows),
           in.hintRows)

\* a Refresh that recomputes the geometry before it moves to the line start
RefreshComputeFirst(g, tm, in) ==
    LET t0 == HideCursor(tm)
        g1 == computeCoordinates(g, t0, in)
        t1 == CursorToLineStart(g1, QueryCursorPos(t0))
        t2 == MoveCursorForwards(MoveCursorBackwards(t1, Width), g1.startCols)
        t3 == displayLine(g1, t2, in)
        t4 == RightPrint(t3)
        t5 == displayHelpers(g1, t4, in)
        g2 == [g1 EXCEPT !.compRows = in.compRows]
        t6 == CursorHintToLineStart(g2, t5)
        t7 == ShowCursor(LineStartToCursorPos(g2, t6))
    IN [d |-> g2, t |-> t7, atStart |-> t1]

\* Refresh: the geometry and the terminal it leaves, and the terminal as it
\* was after the first move to the line start
Refresh(g, tm, in) ==
    LET t1 == CursorToLineStart(g, HideCursor(tm))
        g1 == computeCoordinates(g, t1, in)
        t2 == MoveCursorForwards(
                  MoveCursorBackwards(QueryCursorPos(t1), Width), g1.startCols)
        t3 == displayLine(g1, t2, in)
        t4 == RightPrint(t3)
        t5 == displayHelpers(g1, t4, in)
        g2 == [g1 EXCEPT !.compRows = in.compRows]
        t6 == CursorHintToLineStart(g2, t5)
        t7 == ShowCursor(LineStartToCursorPos(g2, t6))
    IN [d |-> g2, t |-> t7, atStart |-> t1]

\* CursorBelowLine
CursorBelowLine(g, tm) ==
    Println(MoveCursorDown(MoveCursorUp(tm, g.cursorRow), g.lineRows))

\* a ClearHelpers that forgets the row CursorBelowLine went down
ClearHelpersNoUp(g, tm) ==
    LET t1 == ClearScreenBelow(CursorBelowLine(g, tm))
        t2 == MoveCursorUp(t1, g.lineRows)
    IN [d |-> g,
        t |-> MoveCursorForwards(MoveCursorDown(t2, g.cursorRow), g.cursorCol)]

\* ClearHelpers: the terminal it leaves (it assigns no field of the engine)
ClearHelpers(g, tm) ==
    LET t1 == ClearScreenBelow(CursorBelowLine(g, tm))
        t2 == MoveCursorUp(MoveCursorUp(t1, 1), g.lineRows)
    IN [d |-> g,
        t |-> MoveCursorForwards(MoveCursorDown(t2, g.cursorRow), g.cursorCol)]

\* AcceptLine
AcceptLine(g, tm, in) ==
    LET t1 == CursorToLineStart(g, tm)
        g1 == computeCoordinates(g, t1, in)
        t2 == MoveCursorForwards(
                  MoveCursorDown(
                      MoveCursorBackwards(QueryCursorPos(t1), Width),
                      g1.lineRows),
                  g1.lineCol)
    IN [d |-> g1, t |-> Println(RightPrint(ClearScreenBelow(t2)))]

\* what the display engine may be given
Shown ==
    { [len |-> n, pos |-> p, sug |-> n + s, inserting |-> i, autosuggest |-> a,
       ok |-> k, hintRows |-> h, compRows |-> 2 * h] :
        n \in 0..MaxShown, p \in 0..MaxShown, s \in {0, 2}, i \in BOOLEAN,
        a \in BOOLEAN, k \in BOOLEAN, h \in {0, 1} }

ShownInputs == { in \in Shown : in.pos <= in.len }

NoShown ==
    [len |-> 0, pos |-> 0, sug |-> 0, inserting |-> FALSE, autosuggest |-> FALSE,
     ok |-> TRUE, hintRows |-> 0, compRows |-> 0]

\* display.NewEngine and the prompt just printed
DInit ==
    /\ d = [startCols |-> 0, startRows |-> 0, lineCol |-> 0, lineRows |-> 0,
            cursorRow |-> 0, cursorCol |-> 0, compRows |-> 0]
    /\ t = [row |-> 0, col |-> PromptLen, wrap |-> FALSE, out |-> <<>>]
    /\ shown = NoShown
    /\ dhist = [op |-> "init", atStart |-> t, onTrack |-> TRUE, before |-> d]
    /\ paints = 0

\* whether the terminal cursor is at the tracked cursor position
OnTrack(g, tm) == tm.row = g.cursorRow /\ tm.col = g.cursorCol

\* Refresh, after any change of the line, the cursor and the helpers
DoRefresh ==
    /\ paints < MaxPaints
    /\ dhist.op # "AcceptLine"
    /\ \E in \in ShownInputs :
          /\ paints > 0 => in.autosuggest = shown.autosuggest
          /\ \E r \in {Refresh(d, Fresh(t), in)} :
                /\ d' = r.d
                /\ t' = r.t
                /\ dhist' = [op |-> "Refresh", atStart |-> Fresh(r.atStart),
                             onTrack |-> OnTrack(d, t), before |-> r.d]
          /\ shown' = in
    /\ paints' = paints + 1

\* ClearHelpers, between two repaints
DoClearHelpers ==
    /\ paints < MaxPaints
    /\ dhist.op = "Refresh"
    /\ \E r \in {ClearHelpers(d, Fresh(t))} :
          /\ d' = r.d
          /\ t' = r.t
          /\ dhist' = [op |-> "ClearHelpers", atStart |-> Fresh(t),
                       onTrack |-> OnTrack(d, t), before |-> d]
    /\ paints' = paints + 1
    /\ UNCHANGED shown

\* AcceptLine: the line is committed, no candidate is being inserted any
\* more; the line is not displayed again
DoAcceptLine ==
    /\ dhist.op \in {"Refresh", "ClearHelpers"}
    /\ \E k \in BOOLEAN :
          /\ shown' = [shown EXCEPT !.ok = k, !.inserting = FALSE]
          /\ \E r \in {AcceptLine(d, Fresh(t), shown')} :
                /\ d' = r.d
                /\ t' = r.t
                /\ dhist' = [op |-> "AcceptLine", atStart |-> Fresh(t),
                             onTrack |-> OnTrack(d, t), before |-> d]
    /\ UNCHANGED paints

DNext == DoRefresh \/ DoClearHelpers \/ DoAcceptLine

---------------------------------------------------------------------------
(* The tokenizers (src/tokenise.go).  A Go string is a sequence of runes   *)
(* here; len(string) counts bytes, so a rune carries its UTF-8 length.     *)

\* the runes tokenized lines are made of
TokRunes == {"a", Space, Tab, ".", EAcute}

\* isPunctuation, over the runes of the model
isPunctuation(r) == r \in {".", Slash, "=", Wildcard}

\* the space alone taken for a blank (a faulty variant)
IsBlankSpaceOnly(r) == r = Space

\* ' ', '\t' or '\n'
IsBlank(r) == r \in {Space, Tab, "\n"}

\* split[len(split)-1] += string(r), the blanks that lead the line left out
\* (a faulty variant)
AppendToLastNoLeadingBlank(split, r) ==
    IF IsBlank(r) /\ Len(split) = 1 /\ split[1] = <<>> THEN split
    ELSE [split EXCEPT ![Len(split)] = Append(@, r)]

\* split[len(split)-1] += string(r)
AppendToLast(split, r) == [split EXCEPT ![Len(split)] = Append(@, r)]

\* the assignments of "if i == linePos" (i counts from 1 here)
AtCursor(st, i, linePos) ==
    IF i - 1 = linePos
    THEN [st EXCEPT !.index = Len(st.split) - 1,
                    !.pos = StringLen(st.split[Len(st.split)]) - 1]
    ELSE st

\* the assignments of "if linePos == len(line)" after the loop
AtEnd(st, line, linePos) ==
    IF linePos = Len(line)
    THEN [split |-> st.split, index |-> Len(st.split) - 1,
          pos |-> StringLen(st.split[Len(st.split)])]
    ELSE [split |-> st.split, index |-> st.index, pos |-> st.pos]

RECURSIVE tokeniseLineLoop(_, _, _, _)
\* the loop of tokeniseLine from the i-th rune on
tokeniseLineLoop(line, linePos, i, st) ==
    IF i > Len(line) THEN st
    ELSE LET r == line[i]
             s1 == IF isPunctuation(r)
                   THEN [st EXCEPT
                           !.split = AppendToLast(
                               IF i > 1 /\ line[i - 1] # r
                               THEN Append(st.split, <<>>) ELSE st.split, r),
                           !.punc = TRUE]
                   ELSE IF IsBlank(r)
                   THEN [st EXCEPT !.split = AppendToLast(st.split, r),
                                   !.punc = TRUE]
                   ELSE [st EXCEPT
                           !.split = AppendToLast(
                               IF st.punc THEN Append(st.split, <<>>)
                               ELSE st.split, r),
                           !.punc = FALSE]
         IN tokeniseLineLoop(line, linePos, i + 1, AtCursor(s1, i, linePos))

\* tokeniseLine: (split, index, pos); nil is the empty sequence
tokeniseLine(line, linePos) ==
    IF Len(line) = 0 THEN [split |-> <<>>, index |-> 0, pos |-> 0]
    ELSE AtEnd(tokeniseLineLoop(line, linePos, 1,
                   [split |-> << <<>> >>, index |-> 0, pos |-> 0,
                    punc |-> FALSE]),
               line, linePos)

RECURSIVE tokeniseSplitSpacesLoop(_, _, _, _)
\* the loop of tokeniseSplitSpaces from the i-th rune on
tokeniseSplitSpacesLoop(line, linePos, i, st) ==
    IF i > Len(line) THEN st
    ELSE LET r == line[i]
             s1 == IF IsBlank(r)
                   THEN [st EXCEPT !.split = AppendToLast(st.split, r)]
                   ELSE [st EXCEPT
                           !.split = AppendToLast(
                               IF i > 1 /\ IsBlank(line[i - 1])
                               THEN Append(st.split, <<>>) ELSE st.split, r)]
         IN tokeniseSplitSpacesLoop(line, linePos, i + 1,
                                    AtCursor(s1, i, linePos))

\* tokeniseSplitSpaces: (split, index, pos)
tokeniseSplitSpaces(line, linePos) ==
    IF Len(line) = 0 THEN [split |-> <<>>, index |-> 0, pos |-> 0]
    ELSE AtEnd(tokeniseSplitSpacesLoop(line, linePos, 1,
                   [split |-> << <<>> >>, index |-> 0, pos |-> 0]),
               line, linePos)

\* the lines given to the tokenizers
TokLines == UNION { [1..n -> TokRunes] : n \in 0..MaxTokLen }

\* no tokenizer called
NoCall(line, linePos) ==
    [fn |-> "none", line |-> line, linePos |-> linePos,
     split |-> <<>>, index |-> 0, pos |-> 0]

\* a call about to be made: any line, the cursor anywhere in it or at its end
TInit == \E line \in TokLines : \E linePos \in 0..Len(line) :
            tok = NoCall(line, linePos)

\* the result of a call, with its arguments
Called(fn, r) ==
    [fn |-> fn, line |-> tok.line, linePos |-> tok.linePos,
     split |-> r.split, index |-> r.index, pos |-> r.pos]

TokeniseLine ==
    /\ tok.fn = "none"
    /\ tok' = Called("tokeniseLine", tokeniseLine(tok.line, tok.linePos))

TokeniseSplitSpaces ==
    /\ tok.fn = "none"
    /\ tok' = Called("tokeniseSplitSpaces",
                     tokeniseSplitSpaces(tok.line, tok.linePos))

TNext == TokeniseLine \/ TokeniseSplitSpaces

---------------------------------------------------------------------------
(* The bracket tokenizer.  Slices and indexes are Go's: an index or a      *)
(* slice bound below 0 or beyond the length panics.                        *)

\* the runes the bracket tokenizer's lines are made of
BracketRunes == {"a", EAcute, "(", ")", "{", "}", "'"}

\* line[linePos] + 2 and line[linePos] - 2 on '{', '[', '}' and ']'
Plus2(r) == IF r = "{" THEN "}" ELSE "]"

Minus2(r) == IF r = "}" THEN "{" ELSE "["

\* the switch on line[linePos]: the brackets looked for, none by default
BracketsAt(r) ==
    IF r \in {"(", ")"} THEN [open |-> "(", close |-> ")", none |-> FALSE]
    ELSE IF r \in {"{", "["} THEN [open |-> r, close |-> Plus2(r), none |-> FALSE]
    ELSE IF r \in {"}", "]"} THEN [open |-> Minus2(r), close |-> r, none |-> FALSE]
    ELSE [open |-> "", close |-> "", none |-> TRUE]

\* pos[count] of the map pos: 0 for a key never set
PosAt(pos, count) == IF count \in DOMAIN pos THEN pos[count] ELSE 0

\* string(line[from:to]), from and to counted from 0
Slice(line, from, to) == SubSeq(line, from + 1, to)

\* whether line[from:to] is within bounds
SliceOk(line, from, to) == 0 <= from /\ from <= to /\ to <= Len(line)

\* the returns of tokeniseBrackets
NilResult == [split |-> <<>>, index |-> 0, pos |-> 0, panicked |-> FALSE]

Panic == [split |-> <<>>, index |-> 0, pos |-> 0, panicked |-> TRUE]

Result(split, index, pos) ==
    [split |-> split, index |-> index, pos |-> pos, panicked |-> FALSE]

RECURSIVE tokeniseBracketsLoop(_, _, _, _, _)
\* the loop of tokeniseBrackets from index i (counted from 0) on
tokeniseBracketsLoop(line, linePos, b, i, st) ==
    IF i >= Len(line) THEN NilResult
    ELSE
    LET r == line[i + 1]
        quoted == st.single \/ st.double
    IN
    IF r = "'"
    THEN tokeniseBracketsLoop(line, linePos, b, i + 1,
             IF ~ st.single THEN [st EXCEPT !.double = ~ @] ELSE st)
    ELSE IF r = "\""
    THEN tokeniseBracketsLoop(line, linePos, b, i + 1,
             IF ~ st.double THEN [st EXCEPT !.single = ~ @] ELSE st)
    ELSE IF r = b.open
    THEN IF ~ quoted
         THEN LET count == st.count + 1
                  s1 == [st EXCEPT !.count = count,
                                   !.pos = (count :> i) @@ st.pos]
              IN IF i = linePos
                 THEN IF ~ SliceOk(line, 0, i - 1) THEN Panic
                      ELSE tokeniseBracketsLoop(line, linePos, b, i + 1,
                               [s1 EXCEPT !.match = count,
                                          !.split = << Slice(line, 0, i - 1) >>])
                 ELSE tokeniseBracketsLoop(line, linePos, b, i + 1, s1)
         ELSE IF i = linePos THEN NilResult
         ELSE tokeniseBracketsLoop(line, linePos, b, i + 1, st)
    ELSE IF r = b.close
    THEN IF ~ quoted
         THEN LET from == PosAt(st.pos, st.count) IN
              IF st.match = st.count
              THEN IF ~ SliceOk(line, from, i) THEN Panic
                   ELSE Result(Append(st.split, Slice(line, from, i)), 1, 0)
              ELSE IF i = linePos
              THEN IF ~ SliceOk(line, 0, from - 1) \/ ~ SliceOk(line, from, i)
                   THEN Panic
                   ELSE Result(<< Slice(line, 0, from - 1), Slice(line, from, i) >>,
                               1, StringLen(Slice(line, from, i)))
              ELSE tokeniseBracketsLoop(line, linePos, b, i + 1,
                       [st EXCEPT !.count = @ - 1])
         ELSE IF i = linePos THEN NilResult
         ELSE tokeniseBracketsLoop(line, linePos, b, i + 1, st)
    ELSE tokeniseBracketsLoop(line, linePos, b, i + 1, st)

\* tokeniseBrackets: (split, index, pos), or the panic of an index or slice
\* out of range
tokeniseBrackets(line, linePos) ==
    IF linePos < 0 \/ linePos >= Len(line) THEN Panic
    ELSE LET b == BracketsAt(line[linePos + 1]) IN
         IF b.none THEN NilResult
         ELSE tokeniseBracketsLoop(line, linePos, b, 0,
                  [split |-> <<>>, count |-> 0, pos |-> <<>>, match |-> 0,
                   single |-> FALSE, double |-> FALSE])

\* the lines given to the bracket tokenizer
BracketLines == UNION { [1..n -> BracketRunes] : n \in 1..MaxBracketLen }

\* a call about to be made: a non-empty line, the cursor on one of its runes
BInit == \E line \in BracketLines : \E linePos \in 0..(Len(line) - 1) :
            tok = [fn |-> "none", line |-> line, linePos |-> linePos,
                   split |-> <<>>, index |-> 0, pos |-> 0, panicked |-> FALSE]

TokeniseBrackets ==
    /\ tok.fn = "none"
    /\ \E r \in { tokeniseBrackets(tok.line, tok.linePos) } :
          tok' = [fn |-> "tokeniseBrackets", line |-> tok.line,
                  linePos |-> tok.linePos, split |-> r.split,
                  index |-> r.index, pos |-> r.pos, panicked |-> r.panicked]

---------------------------------------------------------------------------
(* The actions of the completion engine.                                   *)

\* A completion request: the generation callback fills the groups, the
\* tokenizer gives the prefix (left of the cursor) and the suffix (right).
Generate ==
    /\ phase \in {"idle", "accepted", "cancelled", "previewing"}
    /\ ops < MaxOps
    /\ ops' = ops + 1
    /\ \E res \in GenResults : \E k \in CompleteKeys :
          /\ e' = [e EXCEPT !.groups = res,
                            !.prefix = WordLeft(e.line, e.cursor),
                            !.suffix = WordRight(e.line, e.cursor),
                            !.autoForce = TRUE]
          /\ key' = k
    /\ phase' = "listing"
    /\ op' = "Generate"
    /\ pre' = e'
    /\ run' = EmptyRun

\* the separator a committed candidate ends in, "" when it ends in none of
\* its group's separators or is too short for a matcher to be recorded
AcceptedSep(en) ==
    LET cur == currentGroup(en) IN
    IF cur = 0 THEN ""
    ELSE LET v == GroupSelected(en.groups[cur])
             ns == en.groups[cur].noSpace
         IN IF Len(v) - Len(en.prefix) > 1 /\ ~ notMatcher(v[Len(v)], ns)
            THEN v[Len(v)] ELSE ""

PhaseOf(branch) ==
    CASE branch = "cancel" -> "cancelled"
      [] branch = "none" -> "idle"
      [] branch = "accept" -> "accepted"
      [] branch = "insert" -> "previewing"
      [] OTHER -> "panic"

\* refreshLine after a generation
RefreshLine ==
    /\ phase = "listing"
    /\ LET r == refreshLine(e, key) IN
          /\ e' = r.e
          /\ phase' = PhaseOf(r.branch)
          /\ run' = IF r.branch = "accept"
                    THEN [sep |-> AcceptedSep(e), n |-> 0, removed |-> <<>>]
                    ELSE EmptyRun
    /\ pre' = e
    /\ op' = "RefreshLine"
    /\ UNCHANGED <<key, ops>>

\* Select: the selection moves to the next candidate, then refreshLine
Select ==
    /\ phase = "previewing"
    /\ LET r == refreshLine(MoveSelection(e), key) IN
          /\ e' = r.e
          /\ phase' = PhaseOf(r.branch)
    /\ pre' = e
    /\ op' = "Select"
    /\ UNCHANGED <<key, run, ops>>

\* the preview is cancelled
CancelPreview ==
    /\ phase = "previewing"
    /\ e' = Cancel(e, TRUE, TRUE)
    /\ phase' = "cancelled"
    /\ pre' = e
    /\ op' = "Cancel"
    /\ UNCHANGED <<key, run, ops>>

\* a key is typed: TrimSuffix runs first ...
TrimSuffixStep ==
    /\ phase \in {"idle", "accepted", "cancelled"}
    /\ ops < MaxOps
    /\ ops' = ops + 1
    /\ \E k \in Keys :
          /\ key' = k
          /\ e' = TrimSuffix(e, k)
          /\ run' = IF run.sep # "" /\ k = run.sep /\ run.n < 2
                    THEN [run EXCEPT !.n = @ + 1,
                              !.removed = Append(@, Len(e.line) - Len(e'.line))]
                    ELSE EmptyRun
    /\ phase' = "trimmed"
    /\ op' = "TrimSuffix"
    /\ pre' = e

\* ... then the key is inserted at the cursor
InsertKey ==
    /\ phase = "trimmed"
    /\ e' = InsertAt(e, <<key>>)
    /\ phase' = "idle"
    /\ op' = "InsertKey"
    /\ pre' = e'
    /\ UNCHANGED <<key, run, ops>>

CNext ==
    \/ Generate
    \/ RefreshLine
    \/ Select
    \/ CancelPreview
    \/ TrimSuffixStep
    \/ InsertKey

\* the keys pending when UpdateInserted runs
PendingKeys == { <<>>, <<Esc>>, <<Return>>, <<"a">>, <<"a", Esc>>, <<Esc, "a">> }

\* before UpdateInserted ran
NoUpdate ==
    [local |-> "", keys |-> <<>>, auto |-> FALSE, called |-> FALSE,
     inserted |-> FALSE, cached |-> FALSE]

\* the main loop calls UpdateInserted once between the two keymaps
UpdateInsertedStep ==
    /\ phase \in {"idle", "accepted", "cancelled", "previewing"}
    /\ ~ upd.called
    /\ \E local \in LocalKeymaps : \E keys \in PendingKeys : \E auto \in BOOLEAN :
          \E r \in { UpdateInserted(e, [local |-> local, keys |-> keys,
                                        auto |-> auto]) } :
             /\ e' = r.e
             /\ upd' = [local |-> local, keys |-> keys, auto |-> auto,
                        called |-> TRUE, inserted |-> r.inserted,
                        cached |-> r.cached]
    /\ phase' = "updated"
    /\ pre' = e
    /\ op' = "UpdateInserted"
    /\ UNCHANGED <<key, run, ops>>

---------------------------------------------------------------------------
(* The undo history (src/undo.go).  string(rl.line) and []rune(undo.line)  *)
(* keep a line of valid runes as it is.                                    *)

vimInsert == "vimInsert"

vimKeys == "vimKeys"

\* undoItem
undoItem(line, pos) == [line |-> line, pos |-> pos]

\* the fields of the instance that undo reads and writes
Fields(r) ==
    [line |-> r.line, pos |-> r.pos, viUndoHistory |-> r.viUndoHistory,
     viUndoSkipAppend |-> r.viUndoSkipAppend, modeViMode |-> r.modeViMode]

\* the instance before any edit
NewInstance ==
    [line |-> <<>>, pos |-> 0, viUndoHistory |-> <<>>,
     viUndoSkipAppend |-> FALSE, modeViMode |-> vimInsert,
     op |-> "init",
     before |-> [line |-> <<>>, pos |-> 0, viUndoHistory |-> <<>>,
                 viUndoSkipAppend |-> FALSE, modeViMode |-> vimInsert]]

\* undoAppendHistory
undoAppendHistory(r) ==
    IF r.viUndoSkipAppend THEN [r EXCEPT !.viUndoSkipAppend = FALSE]
    ELSE [r EXCEPT !.viUndoHistory = Append(@, undoItem(r.line, r.pos)),
                   !.viUndoSkipAppend = FALSE]

RECURSIVE undoPop(_, _)
\* the loop of undoLast: the history it leaves and the snapshot it broke on
undoPop(line, history) ==
    IF Len(history) = 0
    THEN [history |-> history, found |-> FALSE, undo |-> undoItem(<<>>, 0)]
    ELSE LET undo == history[Len(history)]
             rest == SubSeq(history, 1, Len(history) - 1)
         IN IF undo.line # line
            THEN [history |-> rest, found |-> TRUE, undo |-> undo]
            ELSE undoPop(line, rest)

\* undoLast that restores the cursor as recorded (a faulty variant)
undoLastNoAdjust(r) ==
    LET p == undoPop(r.line, r.viUndoHistory) IN
    IF ~ p.found THEN [r EXCEPT !.viUndoHistory = p.history]
    ELSE [r EXCEPT !.viUndoHistory = p.history, !.line = p.undo.line,
                   !.pos = p.undo.pos]

\* undoLast that restores the snapshot on top whatever its line (a faulty
\* variant)
undoLastTop(r) ==
    IF Len(r.viUndoHistory) = 0 THEN r
    ELSE LET undo == r.viUndoHistory[Len(r.viUndoHistory)] IN
         [r EXCEPT !.viUndoHistory = SubSeq(@, 1, Len(@) - 1),
                   !.line = undo.line,
                   !.pos = IF r.modeViMode # vimInsert /\ Len(undo.line) > 0
                              /\ undo.pos = Len(undo.line)
                           THEN undo.pos - 1 ELSE undo.pos]

\* undoLast
undoLast(r) ==
    LET p == undoPop(r.line, r.viUndoHistory) IN
    IF ~ p.found THEN [r EXCEPT !.viUndoHistory = p.history]
    ELSE [r EXCEPT !.viUndoHistory = p.history,
                   !.line = p.undo.line,
                   !.pos = IF r.modeViMode # vimInsert /\ Len(p.undo.line) > 0
                              /\ p.undo.pos = Len(p.undo.line)
                           THEN p.undo.pos - 1 ELSE p.undo.pos]

\* an operation ran: what ran and the instance as it was before
Ran(what, r) == [r EXCEPT !.op = what, !.before = Fields(rl)]

\* a rune is typed at the cursor
InsertRune ==
    /\ Len(rl.line) < MaxLineLen
    /\ \E k \in {"a", "b"} :
          rl' = Ran("insert", [rl EXCEPT !.line = LineInsert(rl.line, rl.pos, <<k>>),
                                         !.pos = rl.pos + 1])

\* the rune before the cursor is deleted
DeleteRune ==
    /\ rl.pos > 0
    /\ rl' = Ran("delete", [rl EXCEPT !.line = LineCutRune(rl.line, rl.pos - 1),
                                      !.pos = rl.pos - 1])

\* the cursor moves back by one
MoveBack ==
    /\ rl.pos > 0
    /\ rl' = Ran("back", [rl EXCEPT !.pos = rl.pos - 1])

\* the vi mode changes between insert and command mode
SwitchMode ==
    rl' = Ran("mode", [rl EXCEPT !.modeViMode =
                          IF @ = vimInsert THEN vimKeys ELSE vimInsert])

\* a command asks for the next snapshot to be skipped
SkipAppend ==
    /\ ~ rl.viUndoSkipAppend
    /\ rl' = Ran("skip", [rl EXCEPT !.viUndoSkipAppend = TRUE])

UndoAppendHistory ==
    /\ Len(rl.viUndoHistory) < MaxUndo
    /\ rl' = Ran("undoAppendHistory", undoAppendHistory(rl))

UndoLast ==
    rl' = Ran("undoLast", undoLast(rl))

RNext ==
    \/ InsertRune
    \/ DeleteRune
    \/ MoveBack
    \/ SwitchMode
    \/ SkipAppend
    \/ UndoAppendHistory
    \/ UndoLast

\* the completion engine, the display engine at rest
Init == CInit /\ DInit /\ tok = NoCall(<<>>, 0) /\ upd = NoUpdate
             /\ rl = NewInstance

Next == CNext /\ UNCHANGED <<dvars, tvars, upd, rl>>

Spec == Init /\ [][Next]_vars

\* the display engine, the completion engine at rest
InitDisplay == CInitOn({<<>>}) /\ DInit /\ tok = NoCall(<<>>, 0)
                    /\ upd = NoUpdate /\ rl = NewInstance

NextDisplay == DNext /\ UNCHANGED <<cvars, tvars, upd, rl>>

SpecDisplay == InitDisplay /\ [][NextDisplay]_vars

\* the tokenizers, the engines at rest
InitTokenise == CInitOn({<<>>}) /\ DInit /\ TInit /\ upd = NoUpdate
                     /\ rl = NewInstance

NextTokenise == TNext /\ UNCHANGED <<cvars, dvars, upd, rl>>

SpecTokenise == InitTokenise /\ [][NextTokenise]_vars

\* the bracket tokenizer, the engines at rest
InitBrackets == CInitOn({<<>>}) /\ DInit /\ BInit /\ upd = NoUpdate
                     /\ rl = NewInstance

NextBrackets == TokeniseBrackets /\ UNCHANGED <<cvars, dvars, upd, rl>>

SpecBrackets == InitBrackets /\ [][NextBrackets]_vars

\* the undo history, the engines at rest
InitUndo == CInitOn({<<>>}) /\ DInit /\ tok = NoCall(<<>>, 0) /\ upd = NoUpdate
                 /\ rl = NewInstance

NextUndo == RNext /\ UNCHANGED <<cvars, dvars, tvars, upd>>

SpecUndo == InitUndo /\ [][NextUndo]_vars

\* the completion engine with UpdateInserted in the main loop
InitUpdate == CInit /\ DInit /\ tok = NoCall(<<>>, 0) /\ upd = NoUpdate
                   /\ rl = NewInstance

NextUpdate ==
    /\ \/ Generate /\ UNCHANGED upd
       \/ RefreshLine /\ UNCHANGED upd
       \/ Select /\ UNCHANGED upd
       \/ UpdateInsertedStep
    /\ UNCHANGED <<dvars, tvars, rl>>

SpecUpdate == InitUpdate /\ [][NextUpdate]_vars

---------------------------------------------------------------------------
(* The claims about the completion engine.                                 *)

\* the inserted portion of a candidate: its value past the prefix
InsertedPortion(en) == SubSeq(en.selected, Len(en.prefix) + 1, Len(en.selected))

\* the line l with the rune at index pos (0-based) removed
WithoutRune(l, pos) == SubSeq(l, 1, pos) \o SubSeq(l, pos + 2, Len(l))

\* C1: accept equals preview.  When refreshLine has committed the selected
\* candidate with acceptCandidate, the real line and the real cursor are the
\* shadow line and the shadow cursor insertCandidate builds from the state
\* the commit started from.
C1_AcceptEqualsPreview ==
    (op = "RefreshLine" /\ phase = "accepted") =>
        LET p == insertCandidate(pre, key) IN
        /\ p.hasComp
        /\ e.line = p.compLine
        /\ e.cursor = p.compCursor

\* C1 happens: a candidate is committed in the middle of a word, so that a
\* suffix is cut and added back around a non-empty inserted portion.
C1_Witness ==
    /\ op = "RefreshLine" /\ phase = "accepted"
    /\ pre.suffix # <<>>
    /\ Len(e.line) > Len(pre.line) + 1

\* C2 (as claimed): after a commit of a candidate that ends in a separator
\* of its group, the first typing of that separator makes TrimSuffix remove
\* exactly one rune, and the second typing makes it remove nothing.
C2_SuffixTrimIdempotence ==
    /\ run.n >= 1 => run.removed[1] = 1
    /\ run.n >= 2 => run.removed[2] = 0

\* C3 (as claimed): with a matcher of plain separators recorded at cursor-1
\* and no candidate selected, TrimSuffix deletes the rune before the cursor
\* exactly when the key is whitespace or one of the separators, and changes
\* neither the line nor the cursor for any other key.
C3_TrimSuffixRule ==
    ( /\ op = "TrimSuffix"
      /\ Len(pre.line) > 0 /\ pre.cursor > 0 /\ pre.selected = <<>>
      /\ pre.sm.pos = pre.cursor - 1
      /\ pre.sm.string # <<>>
      /\ notMatcher(Wildcard, pre.sm.string) ) =>
        IF IsSpace(key) \/ ~ notMatcher(key, pre.sm.string)
        THEN /\ e.line = WithoutRune(pre.line, pre.cursor - 1)
             /\ e.cursor = pre.cursor - 1
        ELSE /\ e.line = pre.line
             /\ e.cursor = pre.cursor

\* C4: cancel round-trip.  When a preview is cancelled with the real line as
\* the preview left it, the shadow line is the real line, the shadow cursor
\* the real cursor, and no candidate is selected.
C4_CancelRoundTrip ==
    (op = "Cancel" /\ pre.hasComp) =>
        /\ e.compLine = e.line
        /\ e.compCursor = e.cursor
        /\ e.selected = <<>>
        /\ e.line = pre.line

\* C4 happens: the cancelled preview differed from the real line.
C4_Witness ==
    /\ op = "Cancel" /\ pre.hasComp
    /\ pre.compLine # pre.line
    /\ pre.compCursor # pre.cursor
    /\ pre.selected # <<>>

\* C5 (as claimed): after every insertCandidate the real line and cursor are
\* as before, and the shadow line is the real line with the inserted portion
\* of the candidate selected last, and nothing else, at the cursor.
C5_PreviewLeavesRealBuffer ==
    ( /\ op \in {"RefreshLine", "Select"} /\ phase = "previewing"
      /\ e.selected # <<>> ) =>
        /\ e.line = pre.line
        /\ e.cursor = pre.cursor
        /\ e.compLine = SubSeq(e.line, 1, e.cursor) \o InsertedPortion(e)
                            \o SubSeq(e.line, e.cursor + 1, Len(e.line))

\* C6 (as claimed): refreshLine on a result with exactly one candidate
\* commits it into the real line, clears the menu, resets the force flag, and
\* leaves the shadow buffer as it was.
C6_UniqueCandidateShortcut ==
    (op = "RefreshLine" /\ hasUniqueCandidate(pre)) =>
        /\ phase = "accepted"
        /\ e.line = SubSeq(pre.line, 1, pre.cursor)
                        \o SubSeq(GroupSelected(pre.groups[currentGroup(pre)]),
                                  Len(pre.prefix) + 1,
                                  Len(GroupSelected(pre.groups[currentGroup(pre)])))
                        \o SubSeq(pre.line, pre.cursor + 1, Len(pre.line))
        /\ e.groups = <<>>
        /\ ~ e.autoForce
        /\ e.hasComp = pre.hasComp
        /\ e.compLine = pre.compLine
        /\ e.compCursor = pre.compCursor

\* C7: no candidates.  refreshLine on an empty generation result cancels:
\* neither acceptCandidate nor insertCandidate runs, no candidate is
\* selected afterwards, and the real line and cursor are as before.
C7_NoCandidates ==
    (op = "RefreshLine" /\ noCompletions(pre)) =>
        /\ phase = "cancelled"
        /\ e.selected = <<>>
        /\ e.line = pre.line
        /\ e.cursor = pre.cursor
        /\ e.sm = pre.sm
        /\ (e.hasComp => e.compLine = e.line)

\* C7 happens: the empty result arrives while a candidate of an earlier
\* result is still selected.
C7_Witness ==
    /\ op = "RefreshLine" /\ noCompletions(pre)
    /\ pre.selected # <<>>
    /\ pre.hasComp /\ pre.compLine # pre.line

\* C8 (as claimed): acceptCandidate, insertCandidate and prepareSuffix never
\* index or slice out of range.
C8_Totality == ~ e.panicked

\* C9: orphaned matcher.  When TrimSuffix runs on a non-empty line with the
\* cursor past the start, no candidate selected and the matcher recorded
\* elsewhere than cursor-1, the matcher becomes the empty matcher and the
\* line and cursor stay, whatever the key.
C9_OrphanedMatcher ==
    ( /\ op = "TrimSuffix"
      /\ Len(pre.line) > 0 /\ pre.cursor > 0 /\ pre.selected = <<>>
      /\ pre.sm.pos # pre.cursor - 1 ) =>
        /\ e.sm = EmptyMatcher
        /\ e.line = pre.line
        /\ e.cursor = pre.cursor

\* C9 happens: a recorded matcher is orphaned and the key typed is one that
\* would have trimmed.
C9_Witness ==
    /\ op = "TrimSuffix"
    /\ Len(pre.line) > 0 /\ pre.cursor > 0 /\ pre.selected = <<>>
    /\ pre.sm.pos # pre.cursor - 1
    /\ pre.sm.string # <<>>
    /\ (IsSpace(key) \/ Matches(pre.sm, key))
    /\ e.sm = EmptyMatcher

\* C16: no trim without a recorded matcher.  When TrimSuffix runs with no
\* suffix matcher recorded (none recorded yet, or the recorded one cleared
\* as orphaned), it leaves the line and the cursor as they were, whatever
\* the key (whitespace included) and wherever the cursor is.
C16_NoTrimWithoutMatcher ==
    (op = "TrimSuffix" /\ pre.sm = EmptyMatcher) =>
        /\ e.line = pre.line
        /\ e.cursor = pre.cursor

\* the candidate refreshLine works on from the state en
Candidate(en) == GroupSelected(en.groups[currentGroup(en)])

\* C17: matcher valid right after accept.  When acceptCandidate has
\* committed a candidate with more than one character beyond the prefix, the
\* recorded matcher position is the new real cursor minus 1, whatever the
\* candidate, the prefix and the suffix are.
C17_MatcherAfterAccept ==
    ( /\ op = "RefreshLine" /\ phase = "accepted"
      /\ Len(Candidate(pre)) - Len(pre.prefix) > 1 ) =>
        e.sm.pos = e.cursor - 1

\* the state refreshLine started from in the last operation
Started == IF op = "Select" THEN MoveSelection(pre) ELSE pre

\* C18: short candidates do not touch suffix handling.  When refreshLine
\* accepts or inserts a non-empty candidate with at most one character beyond
\* the prefix, the suffix matcher (separator set and position) is as it was
\* before, nothing fails, and what is inserted is the candidate, unchanged,
\* without the prefix.
C18_ShortCandidates ==
    ( /\ op \in {"RefreshLine", "Select"}
      /\ ~ noCompletions(pre)
      /\ Len(Candidate(Started)) > 0
      /\ Len(Candidate(Started)) - Len(pre.prefix) \in {0, 1} ) =>
        /\ ~ e.panicked
        /\ e.sm = pre.sm
        /\ phase = "previewing" =>
              e.inserted = SubSeq(Candidate(Started), Len(pre.prefix) + 1,
                                  Len(Candidate(Started)))

\* C10: repaint undo-then-redo invariant.  Every Refresh ends with the
\* terminal cursor at column cursorCol on the row cursorRow below the first
\* row of the input line, and the Refresh began by bringing the terminal
\* cursor, with the geometry the previous call stored, onto the first row of
\* the input line.
C10_RepaintUndoRedo ==
    dhist.op = "Refresh" =>
        /\ t.row = d.cursorRow
        /\ t.col = d.cursorCol
        /\ dhist.atStart.row = 0

---------------------------------------------------------------------------
(* The record of the terminal's output.                                    *)

Moves == {"up", "down", "forwards", "backwards"}

\* how many times an output occurs in a record
Count(out, what) == Cardinality({i \in 1..Len(out) : out[i].op = what})

\* where an output that occurs in a record occurs first
Index(out, what) == CHOOSE i \in 1..Len(out) :
                       /\ out[i].op = what
                       /\ \A j \in 1..(i - 1) : out[j].op # what

\* C11: Refresh protocol order.  Every Refresh writes hide-cursor first and
\* show-cursor last; in between, in this order and once each: the move to the
\* line start, which is the move the geometry of the previous call gives and
\* which is over before the geometry is recomputed (the position query), the
\* line content, the right-side prompt, the hint, the completions, and then
\* only cursor moves (the return to the tracked position).
C11_RefreshOrder ==
    [][dhist'.op = "Refresh" =>
        LET o == t'.out
            q == Index(o, "query")
        IN /\ \A w \in {"hide", "query", "line", "rprompt", "hint",
                         "completions", "show"} : Count(o, w) = 1
           /\ o[1].op = "hide"
           /\ o[Len(o)].op = "show"
           /\ SubSeq(o, 2, q - 1) = CursorToLineStart(d, Fresh(t)).out
           /\ q < Index(o, "line")
           /\ Index(o, "line") < Index(o, "rprompt")
           /\ Index(o, "rprompt") < Index(o, "hint")
           /\ Index(o, "hint") < Index(o, "completions")
           /\ \A i \in (Index(o, "completions") + 1)..(Len(o) - 1) :
                 o[i].op \in Moves
    ]_vars

\* a second Refresh whose move to the line start went up and back over a
\* cursor that the previous Refresh left on a lower row
C11_Witness ==
    /\ dhist.op = "Refresh"
    /\ paints = 2
    /\ \E i \in 1..Len(t.out) : \E j \in 1..Len(t.out) :
          /\ i < j
          /\ t.out[i].op = "up"
          /\ t.out[j].op = "query"
    /\ d.cursorRow = 0

\* C12: AcceptLine targets the committed line.  Called with the terminal
\* cursor at the tracked position, AcceptLine clears the screen from the end
\* row and end column of the real line (not the suggested one), whatever the
\* history-autosuggest option and the suggestion are, and leaves the cursor
\* at column 0 of the row after that line's last row.
C12_AcceptLineTarget ==
    (dhist.op = "AcceptLine" /\ dhist.onTrack) =>
        LET real == Coordinates(d.startCols, shown.len)
            c == t.out[Index(t.out, "clear")]
        IN /\ c.row = real.row
           /\ c.col = real.col
           /\ t.row = real.row + 1
           /\ t.col = 0

\* C13: ClearHelpers frame.  Called with the terminal cursor at the tracked
\* position, ClearHelpers clears the screen once, from the leftmost column of
\* the row below the last row of the input line, writes no line content,
\* changes no field of the geometry snapshot, and leaves the terminal cursor
\* at the tracked position (cursorCol, cursorRow).
C13_ClearHelpersFrame ==
    (dhist.op = "ClearHelpers" /\ dhist.onTrack) =>
        /\ d = dhist.before
        /\ Count(t.out, "clear") = 1
        /\ t.out[Index(t.out, "clear")].row = d.lineRows + 1
        /\ t.out[Index(t.out, "clear")].col = 0
        /\ Count(t.out, "line") = 0
        /\ OnTrack(d, t)

\* ClearHelpers ran on a line of several rows, the cursor inside the line
C13_Witness ==
    /\ dhist.op = "ClearHelpers"
    /\ dhist.onTrack
    /\ d.lineRows >= 1
    /\ d.cursorRow < d.lineRows
    /\ d.cursorCol > 0

\* C14: geometry fallback.  After every computeCoordinates (in Refresh and in
\* AcceptLine), also when the terminal did not answer the position query,
\* neither startCols nor startRows holds the failure value -1.
C14_GeometryFallback ==
    dhist.op \in {"Refresh", "AcceptLine"} =>
        /\ d.startCols # -1
        /\ d.startRows # -1

---------------------------------------------------------------------------
(* UpdateInserted.                                                         *)

\* C21: mustRemoveInserted answers true exactly when the local keymap is
\* incremental search, a key is pending and that key is neither Escape nor
\* Return; in every other case it answers false and UpdateInserted calls
\* Cancel without the removal of the inserted candidate.
C21_MustRemoveInserted ==
    upd.called =>
        /\ upd.inserted = (/\ upd.local = Isearch
                           /\ Len(upd.keys) > 0
                           /\ upd.keys[1] # Esc
                           /\ upd.keys[1] # Return)
        /\ (upd.local # Isearch \/ upd.keys = <<>>
                \/ upd.keys[1] \in {Esc, Return}) => ~ upd.inserted

\* UpdateInserted ran over a previewed candidate in incremental search, once
\* with a letter pending
C21_Witness ==
    /\ upd.called
    /\ Len(pre.selected) > 0
    /\ upd.local = Isearch
    /\ upd.keys = <<"a", Esc>>
    /\ upd.inserted

---------------------------------------------------------------------------
(* The tokenizers.                                                         *)

RECURSIVE RunesBefore(_, _)
\* the runes of the first n segments
RunesBefore(split, n) ==
    IF n = 0 THEN 0 ELSE Len(split[n]) + RunesBefore(split, n - 1)

\* C15: tokenizer cursor location.  For tokeniseLine and
\* tokeniseSplitSpaces, a non-empty line and a cursor in 0..len(line): the
\* index addresses an existing segment, the runes of the segments before it
\* plus pos make linePos, and pos is between 0 and the runes of that segment;
\* an empty line yields (nil, 0, 0).
C15_TokenizerCursor ==
    tok.fn \in {"tokeniseLine", "tokeniseSplitSpaces"} =>
        IF tok.line = <<>>
        THEN tok.split = <<>> /\ tok.index = 0 /\ tok.pos = 0
        ELSE /\ tok.index >= 0
             /\ tok.index < Len(tok.split)
             /\ RunesBefore(tok.split, tok.index) + tok.pos = tok.linePos
             /\ tok.pos >= 0
             /\ tok.pos <= Len(tok.split[tok.index + 1])

\* C19: exact-fit adjustment.  When a Refresh that began on the first row of
\* the input line displays a line that ends exactly at the right edge with
\* the cursor at its end (lineCol = 0 and cursorCol = 0), having filled one
\* row or more, displayLine writes one newline after the line, which puts the
\* terminal cursor on the row lineRows the geometry reports.
C19_ExactFitAdjustment ==
    ( /\ dhist.op = "Refresh"
      /\ dhist.atStart.row = 0
      /\ d.lineCol = 0 /\ d.cursorCol = 0
      /\ d.cursorRow = d.lineRows
      /\ d.lineRows >= 1 ) =>
        LET i == Index(t.out, "line") IN
        /\ t.out[i + 1].op = "newline"
        /\ t.out[i + 1].row = d.lineRows
        /\ t.out[i + 2].op = "rprompt"

RECURSIVE Concat(_)
Concat(split) ==
    IF split = <<>> THEN <<>> ELSE Head(split) \o Concat(Tail(split))

\* C22: tokenizer partition.  For a non-empty line and any cursor, the
\* segments of tokeniseLine and of tokeniseSplitSpaces are all non-empty and,
\* put one after the other, are the line: no rune lost, doubled or moved.
C22_TokenizerPartition ==
    (tok.fn \in {"tokeniseLine", "tokeniseSplitSpaces"} /\ tok.line # <<>>) =>
        /\ \A i \in 1..Len(tok.split) : tok.split[i] # <<>>
        /\ Concat(tok.split) = tok.line

\* tokeniseLine cut a line of three runes that starts with a blank in three
C22_Witness ==
    /\ tok.fn = "tokeniseLine"
    /\ Len(tok.line) = 3
    /\ IsBlank(tok.line[1])
    /\ Len(tok.split) = 3
\* the places of the line (counted from 0) where the segments begin
SegmentStarts(split) == { RunesBefore(split, k - 1) : k \in 1..Len(split) }

\* the non-blank runes of the line that follow a blank, counted from 0
AfterBlank(line) ==
    { i \in 1..(Len(line) - 1) : /\ line[i + 1] \notin {Space, Tab, "\n"}
                                 /\ line[i] \in {Space, Tab, "\n"} }

\* C23: whitespace-only segmentation.  In the result of tokeniseSplitSpaces
\* on a non-empty line the first segment begins the line and a further
\* segment begins exactly at each non-blank rune that follows a blank (space,
\* tab or newline), nowhere else; the blanks that lead the line are the first
\* segment alone.
C23_WhitespaceSegmentation ==
    (tok.fn = "tokeniseSplitSpaces" /\ tok.line # <<>>) =>
        /\ SegmentStarts(tok.split) = {0} \cup AfterBlank(tok.line)
        /\ Cardinality(SegmentStarts(tok.split)) = Len(tok.split)
        /\ (tok.line[1] \in {Space, Tab, "\n"} /\ Len(tok.split) > 1) =>
               \A i \in 1..Len(tok.split[1]) :
                   tok.split[1][i] \in {Space, Tab, "\n"}

\* tokeniseSplitSpaces cut "blank, rune, tab" after the leading blank only
C23_Witness ==
    /\ tok.fn = "tokeniseSplitSpaces"
    /\ tok.line = <<Space, "a", Tab>>
    /\ tok.split = << <<Space>>, <<"a", Tab>> >>
---------------------------------------------------------------------------
(* The bracket tokenizer.                                                  *)

\* C25: bracket tokenizer totality and index validity.  For a non-empty
\* line, balanced or not, and a cursor on one of its runes, tokeniseBrackets
\* returns without an index or slice out of range, and a split that is not
\* nil has two segments, so that the index 1 it returns addresses one.
C25_BracketTotality ==
    tok.fn = "tokeniseBrackets" =>
        /\ ~ tok.panicked
        /\ tok.split # <<>> => Len(tok.split) = 2

RECURSIVE InQuotes(_, _)
\* the quote open before the i-th rune (counted from 0): "" when none is
InQuotes(line, i) ==
    IF i = 0 THEN ""
    ELSE LET q == InQuotes(line, i - 1)
             r == line[i]
         IN IF r \in {"'", "\""}
            THEN IF q = "" THEN r ELSE IF q = r THEN "" ELSE q
            ELSE q

\* the places (counted from 0) between from and to, excluded, that hold the
\* rune r outside quotes
Outside(line, r, from, to) ==
    { j \in (from + 1)..(to - 1) : line[j + 1] = r /\ InQuotes(line, j) = "" }

\* as many o as c outside quotes, and never more c than o so far
BalancedFor(line, o, c) ==
    /\ Cardinality(Outside(line, o, -1, Len(line)))
          = Cardinality(Outside(line, c, -1, Len(line)))
    /\ \A j \in 0..Len(line) :
          Cardinality(Outside(line, o, -1, j))
              >= Cardinality(Outside(line, c, -1, j))

Balanced(line) ==
    BalancedFor(line, "(", ")") /\ BalancedFor(line, "{", "}")
        /\ BalancedFor(line, "[", "]")

\* the closing bracket that matches the opening one at k, nesting respected
MatchingClose(line, k, o, c) ==
    CHOOSE j \in (k + 1)..(Len(line) - 1) :
        /\ line[j + 1] = c /\ InQuotes(line, j) = ""
        /\ Cardinality(Outside(line, o, k, j))
              = Cardinality(Outside(line, c, k, j))
        /\ \A m \in (k + 1)..(j - 1) :
              ~ (/\ line[m + 1] = c /\ InQuotes(line, m) = ""
                 /\ Cardinality(Outside(line, o, k, m))
                       = Cardinality(Outside(line, c, k, m)))

\* the opening bracket that matches the closing one at k
MatchingOpen(line, k, o, c) ==
    CHOOSE j \in 0..(k - 1) :
        /\ line[j + 1] = o /\ InQuotes(line, j) = ""
        /\ Cardinality(Outside(line, o, j, k))
              = Cardinality(Outside(line, c, j, k))
        /\ \A m \in (j + 1)..(k - 1) :
              ~ (/\ line[m + 1] = o /\ InQuotes(line, m) = ""
                 /\ Cardinality(Outside(line, o, m, k))
                       = Cardinality(Outside(line, c, m, k)))

CloserOf(o) == IF o = "(" THEN ")" ELSE IF o = "{" THEN "}" ELSE "]"

OpenerOf(c) == IF c = ")" THEN "(" ELSE IF c = "}" THEN "{" ELSE "["

\* C24: bracket matching.  In a line whose brackets are balanced outside
\* quotes: with the cursor on an opening bracket outside quotes,
\* tokeniseBrackets returns as second segment the text from that bracket up
\* to, not including, its matching closing bracket, with position 0; with
\* the cursor on a closing bracket outside quotes, the second segment runs
\* from the matching opening bracket up to the cursor and the position is
\* that segment's length; with the cursor on a bracket inside quotes or on
\* no bracket, the result is (nil, 0, 0).
C24_BracketMatching ==
    (tok.fn = "tokeniseBrackets" /\ Balanced(tok.line)) =>
        LET line == tok.line
            k == tok.linePos
            r == line[k + 1]
            outside == InQuotes(line, k) = ""
        IN IF r \in {"(", "{", "["} /\ outside
           THEN /\ ~ tok.panicked
                /\ Len(tok.split) = 2
                /\ tok.index = 1
                /\ tok.split[2]
                     = Slice(line, k, MatchingClose(line, k, r, CloserOf(r)))
                /\ tok.pos = 0
           ELSE IF r \in {")", "}", "]"} /\ outside
           THEN /\ ~ tok.panicked
                /\ Len(tok.split) = 2
                /\ tok.index = 1
                /\ tok.split[2]
                     = Slice(line, MatchingOpen(line, k, OpenerOf(r), r), k)
                /\ tok.pos = StringLen(tok.split[2])
           ELSE ~ tok.panicked /\ tok.split = <<>> /\ tok.index = 0
                    /\ tok.pos = 0
---------------------------------------------------------------------------
(* The undo history.                                                       *)

\* the topmost snapshot of the history whose line is not the given one, 0
\* when there is none
LastDiffering(history, line) ==
    LET D == { k \in 1..Len(history) : history[k].line # line } IN
    IF D = {} THEN 0 ELSE CHOOSE k \in D : \A j \in D : j <= k

\* C26: undo restores the latest differing snapshot.  undoLast pops
\* snapshots from the top of the history until it pops one whose line is not
\* the current line, then the line and the cursor are that snapshot's; when
\* every snapshot has the current line, line and cursor stay and the history
\* ends empty; a call on a non-empty history leaves it strictly shorter.
C26_UndoRestoresSnapshot ==
    rl.op = "undoLast" =>
        LET h == rl.before.viUndoHistory
            k == LastDiffering(h, rl.before.line)
        IN /\ IF k > 0
              THEN /\ rl.line = h[k].line
                   /\ rl.pos = h[k].pos
                   /\ rl.viUndoHistory = SubSeq(h, 1, k - 1)
              ELSE /\ rl.line = rl.before.line
                   /\ rl.pos = rl.before.pos
                   /\ rl.viUndoHistory = <<>>
           /\ Len(h) > 0 => Len(rl.viUndoHistory) < Len(h)

\* C26 as amended: as above, the cursor being the snapshot's moved back by
\* one when the vi mode is not insert and the snapshot's cursor is at the end
\* of its non-empty line.
C26_UndoRestoresAdjusted ==
    rl.op = "undoLast" =>
        LET h == rl.before.viUndoHistory
            k == LastDiffering(h, rl.before.line)
        IN /\ IF k > 0
              THEN /\ rl.line = h[k].line
                   /\ rl.pos = IF /\ rl.before.modeViMode # vimInsert
                                  /\ Len(h[k].line) > 0
                                  /\ h[k].pos = Len(h[k].line)
                               THEN h[k].pos - 1 ELSE h[k].pos
                   /\ rl.viUndoHistory = SubSeq(h, 1, k - 1)
              ELSE /\ rl.line = rl.before.line
                   /\ rl.pos = rl.before.pos
                   /\ rl.viUndoHistory = <<>>
           /\ Len(h) > 0 => Len(rl.viUndoHistory) < Len(h)

\* undoLast went past a snapshot of the current line and restored the one
\* below it, one more staying in the history
C26_Witness ==
    /\ rl.op = "undoLast"
    /\ Len(rl.before.viUndoHistory) = 3
    /\ LastDiffering(rl.before.viUndoHistory, rl.before.line) = 2
    /\ Len(rl.viUndoHistory) = 1
    /\ rl.line # rl.before.line

\* C27: the cursor stays in range across undo.  After any sequence of line
\* edits, undoAppendHistory and undoLast calls, 0 <= pos <= len(line); after
\* an undoLast that restored a snapshot while the vi mode is not insert, the
\* restored line not empty, pos < len(line).
C27_CursorInRange ==
    /\ 0 <= rl.pos
    /\ rl.pos <= Len(rl.line)
    /\ (/\ rl.op = "undoLast"
        /\ LastDiffering(rl.before.viUndoHistory, rl.before.line) > 0
        /\ rl.modeViMode # vimInsert
        /\ Len(rl.line) > 0) => rl.pos < Len(rl.line)

\* undoLast restored, in command mode, a snapshot taken with the cursor at
\* the end of its line
C27_Witness ==
    /\ rl.op = "undoLast"
    /\ rl.modeViMode = vimKeys
    /\ LET h == rl.before.viUndoHistory
           k == LastDiffering(h, rl.before.line)
       IN /\ k > 0
          /\ Len(h[k].line) = 2
          /\ h[k].pos = 2
          /\ rl.pos = 1
====
